---- MODULE Spec2Model ----
(***************************************************************************)
(* Model of src/api/main.py: the paragraph grouping pipeline               *)
(* (calculate_bbox_properties .. group_paragraphs) and the lifecycle of    *)
(* the cached OCR reader (get_reader, /init, /read_text, /close).          *)
(*                                                                         *)
(* Numbers.  Coordinates are integers; in the detection universe every     *)
(* left + right, top + bottom, width and height is even, so the halves     *)
(* (left + right) / 2 and (w1 + w2) / 2 are exact with \div.               *)
(* avg_size = (avg_width + avg_height) / 2 and                             *)
(* distance = sqrt(dx*dx + dy*dy) are not integers in general, so the      *)
(* comparisons of relative_distance = distance / avg_size against a        *)
(* threshold t/10 are made on the squares, cross-multiplied:               *)
(*     distance / avg_size < t/10                                          *)
(*        <=>  400 * (dx^2 + dy^2) < t^2 * (avg_width + avg_height)^2      *)
(* Thresholds are kept in tenths (0.3 -> 3, 0.8 -> 8, 1.5 -> 15, 2.0 -> 20)*)
(* A text is a sequence of characters; a score is a whole percentage and   *)
(* the mean score the pair <<sum, count>>.                                 *)
(***************************************************************************)
EXTENDS Integers, Sequences, FiniteSets, TLC

VARIABLES
    results,              \* argument of group_paragraphs: list of (bbox, text, score)
    max_distance_factor,  \* argument of group_paragraphs, in tenths
    pc,                   \* position inside group_paragraphs
    items_with_props,     \* line 195: the sorted items, each with props and used
    i,                    \* line 208: index of the outer loop (1-based)
    j,                    \* line 219: index of the candidate scan (1-based)
    search_expanded,      \* line 215
    paragraph_items,      \* line 212: the open cluster, as positions in items_with_props
    paragraphs,           \* line 206: the paragraphs emitted so far
    origin,               \* history: input index of each position of items_with_props
    cluster_log,          \* history: per emitted paragraph, its positions as added and as sorted
    round,                \* 1: first call; 2: the call on the flattened output of the first
    first,                \* the paragraph list returned by the first call
    reader,               \* _reader (line 25): 0 is None, k > 0 the k-th reader constructed
    constructed,          \* history: number of readers constructed (lines 51-54)
    released,             \* history: number of readers dropped by /close (lines 372-374)
    calls,                \* number of endpoint calls started
    requests,             \* the /read_text calls suspended at "await image.read()"
    responses             \* HTTP status of each finished call, in order

gvars == <<results, max_distance_factor, pc, items_with_props, i, j, search_expanded,
           paragraph_items, paragraphs, origin, cluster_log, round, first>>
svars == <<reader, constructed, released, calls, requests, responses>>
vars == <<results, max_distance_factor, pc, items_with_props, i, j, search_expanded,
          paragraph_items, paragraphs, origin, cluster_log, round, first,
          reader, constructed, released, calls, requests, responses>>

----------------------------------------------------------------------------
(* Bounds of the model *)

MaxLen == 3

MaxCalls == 5

(* Thresholds of the program, in tenths *)

tolerance_factor == 3

AlignedMergeBelow == 15

CloseMergeBelow == 8

DefaultMaxDistanceFactor == 20

----------------------------------------------------------------------------
(* Sequence helpers: Python's min, max, sum, range of a list *)

Range(s) == {s[k] : k \in 1..Len(s)}

min(s) == CHOOSE x \in Range(s) : \A y \in Range(s) : x <= y

max(s) == CHOOSE x \in Range(s) : \A y \in Range(s) : x >= y

Min2(a, b) == IF a <= b THEN a ELSE b

Max2(a, b) == IF a >= b THEN a ELSE b

RECURSIVE sum(_)
sum(s) == IF Len(s) = 0 THEN 0 ELSE s[1] + sum(Tail(s))

RECURSIVE Concat(_)
Concat(ss) == IF Len(ss) = 0 THEN <<>> ELSE ss[1] \o Concat(Tail(ss))

----------------------------------------------------------------------------
(* calculate_bbox_properties, lines 80-104 *)

calculate_bbox_properties(bbox) ==
    LET xs == [k \in 1..Len(bbox) |-> bbox[k][1]]
        ys == [k \in 1..Len(bbox) |-> bbox[k][2]]
        left == min(xs)
        right == max(xs)
        top == min(ys)
        bottom == max(ys)
    IN  [center_x |-> (left + right) \div 2,
         center_y |-> (top + bottom) \div 2,
         left |-> left, right |-> right, top |-> top, bottom |-> bottom,
         width |-> right - left,
         height |-> bottom - top]

(* calculate_distance, lines 106-110: the square of the returned distance *)
calculate_distance_sq(bbox1_props, bbox2_props) ==
    LET dx == bbox1_props.center_x - bbox2_props.center_x
        dy == bbox1_props.center_y - bbox2_props.center_y
    IN  dx * dx + dy * dy

(* is_horizontally_aligned, lines 112-119: overlap_height > min_height * 0.3 *)
is_horizontally_aligned(bbox1_props, bbox2_props) ==
    LET overlap_top == Max2(bbox1_props.top, bbox2_props.top)
        overlap_bottom == Min2(bbox1_props.bottom, bbox2_props.bottom)
        overlap_height == Max2(0, overlap_bottom - overlap_top)
        min_height == Min2(bbox1_props.height, bbox2_props.height)
    IN  10 * overlap_height > min_height * tolerance_factor

(* is_vertically_aligned, lines 121-128 *)
is_vertically_aligned(bbox1_props, bbox2_props) ==
    LET overlap_left == Max2(bbox1_props.left, bbox2_props.left)
        overlap_right == Min2(bbox1_props.right, bbox2_props.right)
        overlap_width == Max2(0, overlap_right - overlap_left)
        min_width == Min2(bbox1_props.width, bbox2_props.width)
    IN  10 * overlap_width > min_width * tolerance_factor

(* Lines 132-137: avg_width + avg_height, which is 2 * avg_size *)
avg_size_x2(bbox1_props, bbox2_props) ==
    LET avg_width == (bbox1_props.width + bbox2_props.width) \div 2
        avg_height == (bbox1_props.height + bbox2_props.height) \div 2
    IN  avg_width + avg_height

(* Line 137 with a comparison of lines 139-148: relative_distance > tenths/10, *)
(* where relative_distance is float('inf') unless avg_size > 0                *)
relative_distance_gt(bbox1_props, bbox2_props, tenths) ==
    LET s == avg_size_x2(bbox1_props, bbox2_props)
        d == calculate_distance_sq(bbox1_props, bbox2_props)
    IN  IF s > 0 THEN 400 * d > tenths * tenths * s * s ELSE TRUE

(* relative_distance < tenths/10 *)
relative_distance_lt(bbox1_props, bbox2_props, tenths) ==
    LET s == avg_size_x2(bbox1_props, bbox2_props)
        d == calculate_distance_sq(bbox1_props, bbox2_props)
    IN  IF s > 0 THEN 400 * d < tenths * tenths * s * s ELSE FALSE

(* A slip in should_merge_bubbles: the vertical alignment is not consulted *)
should_merge_bubbles_h_only(bbox1_props, bbox2_props, mdf) ==
    IF relative_distance_gt(bbox1_props, bbox2_props, mdf) THEN FALSE
    ELSE IF relative_distance_lt(bbox1_props, bbox2_props, AlignedMergeBelow)
            /\ is_horizontally_aligned(bbox1_props, bbox2_props) THEN TRUE
    ELSE IF relative_distance_lt(bbox1_props, bbox2_props, CloseMergeBelow) THEN TRUE
    ELSE FALSE

(* should_merge_bubbles, lines 130-151 *)
should_merge_bubbles(bbox1_props, bbox2_props, mdf) ==
    IF relative_distance_gt(bbox1_props, bbox2_props, mdf) THEN FALSE
    ELSE LET h_aligned == is_horizontally_aligned(bbox1_props, bbox2_props)
             v_aligned == is_vertically_aligned(bbox1_props, bbox2_props)
         IN  IF relative_distance_lt(bbox1_props, bbox2_props, AlignedMergeBelow)
                /\ (h_aligned \/ v_aligned) THEN TRUE
             ELSE IF relative_distance_lt(bbox1_props, bbox2_props, CloseMergeBelow) THEN TRUE
             ELSE FALSE

----------------------------------------------------------------------------
(* Sorting.  sorted() and list.sort() are stable: equal keys keep the order *)
(* of the list sorted.  A key is the tuple (center_y, -center_x).           *)

(* Python's tuple comparison on the two-element keys *)
KeyLT(k1, k2) == k1[1] < k2[1] \/ (k1[1] = k2[1] /\ k1[2] < k2[2])

(* A slip in the key: center_x ascending (left-to-right) *)
sort_key_ltr(props) == <<props.center_y, props.center_x>>

(* sort_key, lines 155-158, and the lambda of line 238 *)
sort_key(props) == <<props.center_y, 0 - props.center_x>>

(* Insert index k into the sorted index list perm, after every index whose key is *)
(* not greater                                                                   *)
InsertStable(perm, k, keys) ==
    LET n == Cardinality({x \in 1..Len(perm) : ~KeyLT(keys[k], keys[perm[x]])})
    IN  SubSeq(perm, 1, n) \o <<k>> \o SubSeq(perm, n + 1, Len(perm))

(* Insert index k before every index whose key is not smaller: equal keys end *)
(* up in reverse order                                                        *)
InsertUnstable(perm, k, keys) ==
    LET n == Cardinality({x \in 1..Len(perm) : KeyLT(keys[perm[x]], keys[k])})
    IN  SubSeq(perm, 1, n) \o <<k>> \o SubSeq(perm, n + 1, Len(perm))

RECURSIVE SortPrefix(_, _)
SortPrefix(keys, n) ==
    IF n = 0 THEN <<>> ELSE InsertStable(SortPrefix(keys, n - 1), n, keys)

RECURSIVE SortPrefixUnstable(_, _)
SortPrefixUnstable(keys, n) ==
    IF n = 0 THEN <<>> ELSE InsertUnstable(SortPrefixUnstable(keys, n - 1), n, keys)

(* An unstable sort: equal keys come out reversed *)
sorted_unstable(keys) == SortPrefixUnstable(keys, Len(keys))

(* sorted(list, key) / list.sort(key): the stable order of the indices of keys *)
sorted(keys) == SortPrefix(keys, Len(keys))

(* manga_reading_order_sort, lines 153-160: the input indices in sorted order *)
manga_reading_order_sort(res) ==
    sorted([k \in 1..Len(res) |-> sort_key(calculate_bbox_properties(res[k].bbox))])

----------------------------------------------------------------------------
(* The reduction of a closed cluster, lines 162-186 and 238-258 *)

(* A slip: the corners are taken from the first and third point of each quad *)
calculate_collective_bbox_diag(items) ==
    LET all_xs == Concat([k \in 1..Len(items) |-> <<items[k].bbox[1][1], items[k].bbox[3][1]>>])
        all_ys == Concat([k \in 1..Len(items) |-> <<items[k].bbox[1][2], items[k].bbox[3][2]>>])
    IN  <<<<min(all_xs), min(all_ys)>>, <<max(all_xs), min(all_ys)>>,
          <<max(all_xs), max(all_ys)>>, <<min(all_xs), max(all_ys)>>>>

(* calculate_collective_bbox, lines 162-186 *)
calculate_collective_bbox(items) ==
    IF Len(items) = 0 THEN "None"
    ELSE LET all_xs == Concat([k \in 1..Len(items) |->
                           [p \in 1..Len(items[k].bbox) |-> items[k].bbox[p][1]]])
             all_ys == Concat([k \in 1..Len(items) |->
                           [p \in 1..Len(items[k].bbox) |-> items[k].bbox[p][2]]])
             min_x == min(all_xs)
             max_x == max(all_xs)
             min_y == min(all_ys)
             max_y == max(all_ys)
         IN  <<<<min_x, min_y>>, <<max_x, min_y>>, <<max_x, max_y>>, <<min_x, max_y>>>>

(* ' '.join(texts), line 239 *)
RECURSIVE join(_)
join(texts) ==
    IF Len(texts) = 0 THEN <<>>
    ELSE IF Len(texts) = 1 THEN texts[1]
    ELSE texts[1] \o <<" ">> \o join(Tail(texts))

(* Line 238: the positions of the cluster in sorted order *)
sort_paragraph_items(items, positions) ==
    LET perm == sorted([k \in 1..Len(positions) |-> sort_key(items[positions[k]].props)])
    IN  [k \in 1..Len(positions) |-> positions[perm[k]]]

(* Lines 239-258: the paragraph record of the sorted cluster *)
paragraph_data(items, positions) ==
    LET members == [k \in 1..Len(positions) |-> items[positions[k]]]
    IN  [text |-> join([k \in 1..Len(members) |-> members[k].text]),
         bbox |-> calculate_collective_bbox(members),
         score |-> <<sum([k \in 1..Len(members) |-> members[k].score]), Len(members)>>,
         item_count |-> Len(members),
         individual_items |-> [k \in 1..Len(members) |->
                                  [bbox |-> members[k].bbox,
                                   text |-> members[k].text,
                                   score |-> members[k].score]]]

(* A slip: only the seed of the cluster is compared *)
merges_with_seed(items, positions, cand, mdf) ==
    should_merge_bubbles(items[positions[1]].props, items[cand].props, mdf)

(* Lines 223-231: the candidate merges with some member of the open cluster *)
merges_with_cluster(items, positions, cand, mdf) ==
    \E k \in 1..Len(positions) :
        should_merge_bubbles(items[positions[k]].props, items[cand].props, mdf)

----------------------------------------------------------------------------
(* The detections the inputs are drawn from.  Quad lists the corners of an  *)
(* axis-aligned rectangle clockwise from the top left.                      *)

Quad(l, t, r, b) == <<<<l, t>>, <<r, t>>, <<r, b>>, <<l, b>>>>

Detections ==
    { [bbox |-> Quad(0, 0, 2, 2),   text |-> <<"A">>,      score |-> 90],
      [bbox |-> Quad(0, 4, 2, 6),   text |-> <<"B">>,      score |-> 80],
      [bbox |-> Quad(0, 2, 2, 8),   text |-> <<"C">>,      score |-> 70],
      \* a point, and a segment of no width
      [bbox |-> Quad(3, 1, 3, 1),   text |-> <<"P">>,      score |-> 50],
      [bbox |-> Quad(16, 0, 16, 2), text |-> <<"S">>,      score |-> 10],
      \* a slanted quad: its corners are not those of its bounding rectangle
      [bbox |-> <<<<4, 0>>, <<6, 0>>, <<4, 2>>, <<2, 2>>>>, text |-> <<"Q", "Q">>, score |-> 40],
      \* three points and five points
      [bbox |-> <<<<8, 8>>, <<10, 8>>, <<10, 12>>>>, text |-> <<"T">>, score |-> 30],
      [bbox |-> <<<<8, 6>>, <<10, 6>>, <<12, 8>>, <<10, 10>>, <<8, 10>>>>,
       text |-> <<"V">>, score |-> 20] }

MaxDistanceFactors == {5, DefaultMaxDistanceFactor}

RECURSIVE SeqsUpTo(_, _)
SeqsUpTo(S, n) ==
    IF n = 0 THEN {<<>>}
    ELSE LET shorter == SeqsUpTo(S, n - 1)
         IN  shorter \cup {Append(s, x) : s \in {t \in shorter : Len(t) = n - 1}, x \in S}

----------------------------------------------------------------------------
(* group_paragraphs, lines 188-262, one action per step of its loops *)

GInit ==
    /\ results \in SeqsUpTo(Detections, MaxLen)
    /\ max_distance_factor \in MaxDistanceFactors
    /\ pc = "call"
    /\ items_with_props = <<>>
    /\ i = 0
    /\ j = 0
    /\ search_expanded = FALSE
    /\ paragraph_items = <<>>
    /\ paragraphs = <<>>
    /\ origin = <<>>
    /\ cluster_log = <<>>
    /\ round = 1
    /\ first = <<>>

SIdle ==
    /\ reader = 0
    /\ constructed = 0
    /\ released = 0
    /\ calls = 0
    /\ requests = {}
    /\ responses = <<>>

Init == GInit /\ SIdle

(* Lines 190-191: "if not results: return []" *)
CallEmpty ==
    /\ pc = "call"
    /\ Len(results) = 0
    /\ paragraphs' = <<>>
    /\ pc' = "return"
    /\ UNCHANGED <<results, max_distance_factor, items_with_props, i, j, search_expanded,
                   paragraph_items, origin, cluster_log, round, first>>
    /\ UNCHANGED svars

(* Lines 193-206: sort, derive the props, nothing used, no paragraph yet *)
CallSort ==
    /\ pc = "call"
    /\ Len(results) > 0
    /\ LET perm == manga_reading_order_sort(results)
       IN  /\ origin' = perm
           /\ items_with_props' =
                  [k \in 1..Len(perm) |->
                      [bbox |-> results[perm[k]].bbox,
                       text |-> results[perm[k]].text,
                       score |-> results[perm[k]].score,
                       props |-> calculate_bbox_properties(results[perm[k]].bbox),
                       used |-> FALSE]]
    /\ paragraphs' = <<>>
    /\ cluster_log' = <<>>
    /\ i' = 1
    /\ pc' = "for_i"
    /\ UNCHANGED <<results, max_distance_factor, j, search_expanded, paragraph_items,
                   round, first>>
    /\ UNCHANGED svars

(* Lines 208-210: the current item is used, continue *)
SkipUsed ==
    /\ pc = "for_i"
    /\ i <= Len(items_with_props)
    /\ items_with_props[i].used
    /\ i' = i + 1
    /\ UNCHANGED <<results, max_distance_factor, pc, items_with_props, j, search_expanded,
                   paragraph_items, paragraphs, origin, cluster_log, round, first>>
    /\ UNCHANGED svars

(* A slip: the used flag of the current item is not looked at *)
SeedAnyItem ==
    /\ pc = "for_i"
    /\ i <= Len(items_with_props)
    /\ paragraph_items' = <<i>>
    /\ items_with_props' = [items_with_props EXCEPT ![i].used = TRUE]
    /\ search_expanded' = TRUE
    /\ pc' = "while"
    /\ UNCHANGED <<results, max_distance_factor, i, j, paragraphs, origin, cluster_log,
                   round, first>>
    /\ UNCHANGED svars

(* Lines 209-215: the current item is unused and seeds a new cluster *)
Seed ==
    /\ pc = "for_i"
    /\ i <= Len(items_with_props)
    /\ ~items_with_props[i].used
    /\ paragraph_items' = <<i>>
    /\ items_with_props' = [items_with_props EXCEPT ![i].used = TRUE]
    /\ search_expanded' = TRUE
    /\ pc' = "while"
    /\ UNCHANGED <<results, max_distance_factor, i, j, paragraphs, origin, cluster_log,
                   round, first>>
    /\ UNCHANGED svars

(* Lines 216-219: another pass over the candidates *)
BeginPass ==
    /\ pc = "while"
    /\ search_expanded
    /\ search_expanded' = FALSE
    /\ j' = 1
    /\ pc' = "for_j"
    /\ UNCHANGED <<results, max_distance_factor, items_with_props, i, paragraph_items,
                   paragraphs, origin, cluster_log, round, first>>
    /\ UNCHANGED svars

(* Lines 219-221: the candidate is used, continue *)
ScanUsed ==
    /\ pc = "for_j"
    /\ j <= Len(items_with_props)
    /\ items_with_props[j].used
    /\ j' = j + 1
    /\ UNCHANGED <<results, max_distance_factor, pc, items_with_props, i, search_expanded,
                   paragraph_items, paragraphs, origin, cluster_log, round, first>>
    /\ UNCHANGED svars

(* Lines 223-236: the candidate merges with a member and joins the cluster *)
ScanMerge ==
    /\ pc = "for_j"
    /\ j <= Len(items_with_props)
    /\ ~items_with_props[j].used
    /\ merges_with_cluster(items_with_props, paragraph_items, j, max_distance_factor)
    /\ paragraph_items' = Append(paragraph_items, j)
    /\ items_with_props' = [items_with_props EXCEPT ![j].used = TRUE]
    /\ search_expanded' = TRUE
    /\ j' = j + 1
    /\ UNCHANGED <<results, max_distance_factor, pc, i, paragraphs, origin, cluster_log,
                   round, first>>
    /\ UNCHANGED svars

(* Lines 223-233: the candidate merges with no member *)
ScanNoMerge ==
    /\ pc = "for_j"
    /\ j <= Len(items_with_props)
    /\ ~items_with_props[j].used
    /\ ~merges_with_cluster(items_with_props, paragraph_items, j, max_distance_factor)
    /\ j' = j + 1
    /\ UNCHANGED <<results, max_distance_factor, pc, items_with_props, i, search_expanded,
                   paragraph_items, paragraphs, origin, cluster_log, round, first>>
    /\ UNCHANGED svars

(* Line 219: the candidate scan is over, back to the test of the while loop *)
ScanEnd ==
    /\ pc = "for_j"
    /\ j > Len(items_with_props)
    /\ pc' = "while"
    /\ UNCHANGED <<results, max_distance_factor, items_with_props, i, j, search_expanded,
                   paragraph_items, paragraphs, origin, cluster_log, round, first>>
    /\ UNCHANGED svars

(* Lines 216 and 238-260: a pass added nothing; sort the cluster, reduce it to a *)
(* paragraph, append it, and go on with the next item                            *)
CloseParagraph ==
    /\ pc = "while"
    /\ ~search_expanded
    /\ LET ordered == sort_paragraph_items(items_with_props, paragraph_items)
       IN  /\ paragraphs' = Append(paragraphs, paragraph_data(items_with_props, ordered))
           /\ cluster_log' = Append(cluster_log, [added |-> paragraph_items, sorted |-> ordered])
           /\ paragraph_items' = ordered
    /\ i' = i + 1
    /\ pc' = "for_i"
    /\ UNCHANGED <<results, max_distance_factor, items_with_props, j, search_expanded,
                   origin, round, first>>
    /\ UNCHANGED svars

(* Lines 208 and 262: the outer loop is over, return paragraphs *)
Return ==
    /\ pc = "for_i"
    /\ i > Len(items_with_props)
    /\ pc' = "return"
    /\ UNCHANGED <<results, max_distance_factor, items_with_props, i, j, search_expanded,
                   paragraph_items, paragraphs, origin, cluster_log, round, first>>
    /\ UNCHANGED svars

(* The individual_items of all paragraphs, in output order, as an input list *)
Flatten(paras) ==
    Concat([p \in 1..Len(paras) |-> paras[p].individual_items])

(* A caller feeds the flattened output back with the same max_distance_factor *)
Regroup ==
    /\ pc = "return"
    /\ round = 1
    /\ first' = paragraphs
    /\ results' = Flatten(paragraphs)
    /\ round' = 2
    /\ pc' = "call"
    /\ items_with_props' = <<>>
    /\ i' = 0
    /\ j' = 0
    /\ search_expanded' = FALSE
    /\ paragraph_items' = <<>>
    /\ paragraphs' = <<>>
    /\ origin' = <<>>
    /\ cluster_log' = <<>>
    /\ UNCHANGED max_distance_factor
    /\ UNCHANGED svars

Next ==
    \/ CallEmpty
    \/ CallSort
    \/ SkipUsed
    \/ Seed
    \/ BeginPass
    \/ ScanUsed
    \/ ScanMerge
    \/ ScanNoMerge
    \/ ScanEnd
    \/ CloseParagraph
    \/ Return
    \/ Regroup

Spec == Init /\ [][Next]_vars

----------------------------------------------------------------------------
(* The cached reader and the endpoints, lines 25, 39-57 and 264-378.  The   *)
(* handlers are coroutines of one event loop: each runs without interleaving*)
(* up to an await; api_read_text awaits image.read() (line 303) after it    *)
(* took the reader.                                                         *)

(* A slip in get_reader: the test "if _reader is None" is missing *)
get_reader_always(rd, n, fails) ==
    IF fails THEN [reader |-> rd, constructed |-> n, raised |-> TRUE]
    ELSE [reader |-> n + 1, constructed |-> n + 1, raised |-> FALSE]

(* get_reader, lines 39-57, on _reader = rd after n constructions; fails: the *)
(* import of the engine or RapidOCR() raises.  The result is the new _reader, *)
(* which is the value returned unless raised.                                 *)
get_reader(rd, n, fails) ==
    IF rd = 0
    THEN IF fails THEN [reader |-> 0, constructed |-> n, raised |-> TRUE]
         ELSE [reader |-> n + 1, constructed |-> n + 1, raised |-> FALSE]
    ELSE [reader |-> rd, constructed |-> n, raised |-> FALSE]

GIdle ==
    /\ results = <<>>
    /\ max_distance_factor = DefaultMaxDistanceFactor
    /\ pc = "idle"
    /\ items_with_props = <<>>
    /\ i = 0
    /\ j = 0
    /\ search_expanded = FALSE
    /\ paragraph_items = <<>>
    /\ paragraphs = <<>>
    /\ origin = <<>>
    /\ cluster_log = <<>>
    /\ round = 1
    /\ first = <<>>

ServiceInit == GIdle /\ SIdle

(* root, lines 264-266 *)
ApiRoot ==
    /\ calls < MaxCalls
    /\ calls' = calls + 1
    /\ responses' = Append(responses, 200)
    /\ UNCHANGED <<reader, constructed, released, requests>>
    /\ UNCHANGED gvars

(* api_init, lines 268-286 *)
ApiInit ==
    /\ calls < MaxCalls
    /\ calls' = calls + 1
    /\ \E fails \in BOOLEAN :
           LET got == get_reader(reader, constructed, fails)
           IN  /\ reader' = got.reader
               /\ constructed' = got.constructed
               /\ responses' = Append(responses, IF got.raised THEN 500 ELSE 200)
    /\ UNCHANGED <<released, requests>>
    /\ UNCHANGED gvars

(* api_read_text, lines 291-292: the upload is not an image *)
ApiReadTextNotImage ==
    /\ calls < MaxCalls
    /\ calls' = calls + 1
    /\ responses' = Append(responses, 400)
    /\ UNCHANGED <<reader, constructed, released, requests>>
    /\ UNCHANGED gvars

(* api_read_text, lines 294-303: take the reader, then await the upload *)
ApiReadTextBegin ==
    /\ calls < MaxCalls
    /\ calls' = calls + 1
    /\ \E fails \in BOOLEAN :
           LET got == get_reader(reader, constructed, fails)
           IN  /\ reader' = got.reader
               /\ constructed' = got.constructed
               /\ IF got.raised
                  THEN /\ responses' = Append(responses, 500)
                       /\ UNCHANGED requests
                  ELSE /\ requests' = requests \cup {[call |-> calls + 1, reader |-> got.reader]}
                       /\ UNCHANGED responses
    /\ UNCHANGED released
    /\ UNCHANGED gvars

(* api_read_text, lines 303-364: the upload is read; decode, OCR with the reader *)
(* taken before the await, group, respond                                        *)
ApiReadTextFinish ==
    /\ \E r \in requests : \E outcome \in {"bad_image", "ocr_error", "no_text", "grouped"} :
           /\ requests' = requests \ {r}
           /\ responses' = Append(responses,
                                  CASE outcome = "bad_image" -> 400
                                    [] outcome = "ocr_error" -> 500
                                    [] OTHER -> 200)
    /\ UNCHANGED <<reader, constructed, released, calls>>
    /\ UNCHANGED gvars

(* api_close, lines 366-378 *)
ApiClose ==
    /\ calls < MaxCalls
    /\ calls' = calls + 1
    /\ IF reader # 0
       THEN /\ reader' = 0
            /\ released' = released + 1
       ELSE UNCHANGED <<reader, released>>
    /\ responses' = Append(responses, 200)
    /\ UNCHANGED <<constructed, requests>>
    /\ UNCHANGED gvars

ServiceNext ==
    \/ ApiRoot
    \/ ApiInit
    \/ ApiReadTextNotImage
    \/ ApiReadTextBegin
    \/ ApiReadTextFinish
    \/ ApiClose

ServiceSpec == ServiceInit /\ [][ServiceNext]_vars

----------------------------------------------------------------------------
(* Vocabulary of the properties, computed from the quads themselves *)

Done == pc = "return"

Xs(bbox) == {bbox[k][1] : k \in 1..Len(bbox)}

Ys(bbox) == {bbox[k][2] : k \in 1..Len(bbox)}

SetMin(S) == CHOOSE x \in S : \A y \in S : x <= y

SetMax(S) == CHOOSE x \in S : \A y \in S : x >= y

(* Twice the center of the bounding rectangle of a quad *)
CenterX2(bbox) == SetMin(Xs(bbox)) + SetMax(Xs(bbox))

CenterY2(bbox) == SetMin(Ys(bbox)) + SetMax(Ys(bbox))

SameCenter(b1, b2) == CenterX2(b1) = CenterX2(b2) /\ CenterY2(b1) = CenterY2(b2)

(* Reading order on quads: center_y ascending, then center_x descending *)
ReadsBefore(b1, b2) ==
    \/ CenterY2(b1) < CenterY2(b2)
    \/ CenterY2(b1) = CenterY2(b2) /\ CenterX2(b1) > CenterX2(b2)

(* The global processing order on input indices: reading order, ties by input order *)
GlobalBefore(x, y) ==
    \/ ReadsBefore(results[x].bbox, results[y].bbox)
    \/ SameCenter(results[x].bbox, results[y].bbox) /\ x < y

(* Input indices of the members of emitted paragraph p, in output order and as added *)
MemberSeq(p) ==
    [k \in 1..Len(cluster_log[p].sorted) |-> origin[cluster_log[p].sorted[k]]]

AddedSeq(p) ==
    [k \in 1..Len(cluster_log[p].added) |-> origin[cluster_log[p].added[k]]]

MemberSet(p) == Range(MemberSeq(p))

(* The detection (bbox, text, score) of an input index *)
Detection(x) == [bbox |-> results[x].bbox, text |-> results[x].text, score |-> results[x].score]

Count(s, d) == Cardinality({k \in 1..Len(s) : s[k] = d})

(* Positions assigned to a cluster so far: the emitted ones and the open one *)
Assigned ==
    Concat([p \in 1..Len(cluster_log) |-> cluster_log[p].sorted])
        \o (IF pc \in {"while", "for_j"} THEN paragraph_items ELSE <<>>)

(* MergeDecision between two input indices *)
Merge(x, y) ==
    should_merge_bubbles(calculate_bbox_properties(results[x].bbox),
                         calculate_bbox_properties(results[y].bbox),
                         max_distance_factor)

RECURSIVE Grow(_)
Grow(S) ==
    LET T == S \cup {y \in 1..Len(results) : \E x \in S : Merge(x, y) \/ Merge(y, x)}
    IN  IF T = S THEN S ELSE Grow(T)

(* The connected components of the merge relation on the input *)
Components == {Grow({x}) : x \in 1..Len(results)}

----------------------------------------------------------------------------
(* C1. Partition: at every step a detection is in at most one cluster and the  *)
(* clustered ones are exactly the used ones; when group_paragraphs returns,    *)
(* the individual_items of the paragraphs are the input as a multiset, every   *)
(* input index is a member of exactly one paragraph, once, and each item is    *)
(* the detection of its index.  An empty input returns no paragraph.           *)
C1_Partition ==
    /\ \A a, b \in 1..Len(Assigned) : a # b => Assigned[a] # Assigned[b]
    /\ Range(Assigned) = {k \in 1..Len(items_with_props) : items_with_props[k].used}
    /\ Done =>
          /\ \A d \in Range(results) \cup Range(Flatten(paragraphs)) :
                 Count(Flatten(paragraphs), d) = Count(results, d)
          /\ \A x \in 1..Len(results) :
                 Cardinality({p \in 1..Len(cluster_log) : x \in MemberSet(p)}) = 1
          /\ \A p \in 1..Len(paragraphs) :
                 /\ Len(paragraphs[p].individual_items) = Cardinality(MemberSet(p))
                 /\ \A k \in 1..Len(paragraphs[p].individual_items) :
                        paragraphs[p].individual_items[k] = Detection(MemberSeq(p)[k])
          /\ (Len(results) = 0 => paragraphs = <<>>)

(* A call returned two paragraphs for three detections, two of them equal *)
C1_Witness ==
    /\ Done
    /\ round = 1
    /\ Len(results) = 3
    /\ results[1] = results[3]
    /\ Len(paragraphs) = 2

(* C2. Re-grouping the flattened output with the same max_distance_factor      *)
(* returns as many paragraphs, each with the text and bbox of the paragraph    *)
(* at the same place of the first output and with that paragraph's detections. *)
BlockOf(p) ==
    LET before == sum([q \in 1..(p - 1) |-> first[q].item_count])
    IN  (before + 1)..(before + first[p].item_count)

C3_TiesInInputOrder ==
    (Done /\ round = 1) =>
        \A p \in 1..Len(paragraphs) : \A a, b \in 1..Len(MemberSeq(p)) :
            (a < b /\ SameCenter(results[MemberSeq(p)[a]].bbox, results[MemberSeq(p)[b]].bbox))
                => MemberSeq(p)[a] < MemberSeq(p)[b]

(* C4. In every returned paragraph consecutive individual_items do not read   *)
(* backwards (center_y non-decreasing; at equal center_y, center_x            *)
(* non-increasing), text is the members' texts with one space between         *)
(* neighbours, and item_count is the number of individual_items.              *)
C4_ReadingOrder ==
    Done =>
        \A p \in 1..Len(paragraphs) :
            LET its == paragraphs[p].individual_items
            IN  /\ \A k \in 1..(Len(its) - 1) : ~ReadsBefore(its[k + 1].bbox, its[k].bbox)
                /\ paragraphs[p].text =
                       Concat([k \in 1..Len(its) |->
                                  IF k = 1 THEN its[k].text ELSE <<" ">> \o its[k].text])
                /\ paragraphs[p].item_count = Len(its)

(* A returned paragraph has two neighbours on one line, the right one first, in *)
(* an input that listed the left one first                                      *)
C4_Witness ==
    /\ Done
    /\ round = 1
    /\ \E p \in 1..Len(paragraphs) : \E k \in 1..(paragraphs[p].item_count - 1) :
           /\ CenterY2(paragraphs[p].individual_items[k].bbox)
                  = CenterY2(paragraphs[p].individual_items[k + 1].bbox)
           /\ CenterX2(paragraphs[p].individual_items[k].bbox)
                  > CenterX2(paragraphs[p].individual_items[k + 1].bbox)
           /\ MemberSeq(p)[k] > MemberSeq(p)[k + 1]

(* C5. The bbox of every returned paragraph is the rectangle                   *)
(* [min_x,min_y],[max_x,min_y],[max_x,max_y],[min_x,max_y] that encloses every *)
(* corner point of every member quad, each side through one of those points.   *)
C5_TightUnion ==
    Done =>
        \A p \in 1..Len(paragraphs) :
            LET its == paragraphs[p].individual_items
                box == paragraphs[p].bbox
                pts == UNION {Range(its[k].bbox) : k \in 1..Len(its)}
            IN  /\ Len(box) = 4
                /\ box[2] = <<box[3][1], box[1][2]>>
                /\ box[4] = <<box[1][1], box[3][2]>>
                /\ \A pt \in pts : /\ box[1][1] <= pt[1] /\ pt[1] <= box[3][1]
                                   /\ box[1][2] <= pt[2] /\ pt[2] <= box[3][2]
                /\ \E pt \in pts : pt[1] = box[1][1]
                /\ \E pt \in pts : pt[1] = box[3][1]
                /\ \E pt \in pts : pt[2] = box[1][2]
                /\ \E pt \in pts : pt[2] = box[3][2]

(* A returned paragraph has several members, one of them a quad that does not *)
(* list the corners of its bounding rectangle                                  *)
C5_Witness ==
    /\ Done
    /\ \E p \in 1..Len(paragraphs) :
           /\ paragraphs[p].item_count >= 2
           /\ \E k \in 1..paragraphs[p].item_count :
                  LET b == paragraphs[p].individual_items[k].bbox
                  IN  <<SetMin(Xs(b)), SetMin(Ys(b))>> \notin Range(b)

(* C6. The seed of every returned paragraph is its member that is earliest in *)
(* the global processing order, and the paragraphs come in the global order   *)
(* of their seeds.                                                             *)
C6_SeedOrder ==
    Done =>
        /\ \A p \in 1..Len(cluster_log) : \A x \in MemberSet(p) :
               x # AddedSeq(p)[1] => GlobalBefore(AddedSeq(p)[1], x)
        /\ \A p, q \in 1..Len(cluster_log) :
               p < q => GlobalBefore(AddedSeq(p)[1], AddedSeq(q)[1])

(* Two detections far apart on one line, the left one first in the input, came *)
(* back as two singleton paragraphs, the right one first                       *)
C6_Witness ==
    /\ Done
    /\ Len(results) = 2
    /\ Len(paragraphs) = 2
    /\ CenterY2(results[1].bbox) = CenterY2(results[2].bbox)
    /\ CenterX2(results[1].bbox) < CenterX2(results[2].bbox)
    /\ AddedSeq(1) = <<2>>
    /\ AddedSeq(2) = <<1>>

(* C8. An input with a bbox that is not four points is rejected before any *)
(* rectangle is derived from it, and no paragraph list is returned.        *)
Malformed == \E k \in 1..Len(results) : Len(results[k].bbox) # 4

C8_MalformedRejected ==
    Malformed => (pc = "call" /\ items_with_props = <<>>)

----------------------------------------------------------------------------
(* C9. The decision table of MergeDecision, on the rectangles of the quads.   *)
(* With S4 = w1 + w2 + h1 + h2 = 4 * avg_size and D4 = 4 * distance^2,        *)
(* relative_distance = 2 * sqrt(D4) / S4, infinite when S4 = 0.               *)
RectOf(bbox) ==
    [l |-> SetMin(Xs(bbox)), r |-> SetMax(Xs(bbox)),
     t |-> SetMin(Ys(bbox)), b |-> SetMax(Ys(bbox))]

S4(r1, r2) == (r1.r - r1.l) + (r2.r - r2.l) + (r1.b - r1.t) + (r2.b - r2.t)

D4(r1, r2) ==
    ((r1.l + r1.r) - (r2.l + r2.r)) * ((r1.l + r1.r) - (r2.l + r2.r))
        + ((r1.t + r1.b) - (r2.t + r2.b)) * ((r1.t + r1.b) - (r2.t + r2.b))

(* relative_distance > tenths/10, = tenths/10, < tenths/10 *)
RelAbove(r1, r2, tenths) == S4(r1, r2) = 0 \/ 400 * D4(r1, r2) > tenths * tenths * S4(r1, r2) * S4(r1, r2)

RelEquals(r1, r2, tenths) == S4(r1, r2) > 0 /\ 400 * D4(r1, r2) = tenths * tenths * S4(r1, r2) * S4(r1, r2)

RelBelow(r1, r2, tenths) == ~RelAbove(r1, r2, tenths) /\ ~RelEquals(r1, r2, tenths)

(* Overlap strictly greater than 0.3 times the smaller extent, per axis *)
Overlap(lo1, hi1, lo2, hi2) ==
    LET o == (IF hi1 <= hi2 THEN hi1 ELSE hi2) - (IF lo1 >= lo2 THEN lo1 ELSE lo2)
    IN  IF o > 0 THEN o ELSE 0

Smaller(a, b) == IF a <= b THEN a ELSE b

Aligned(r1, r2) ==
    \/ 10 * Overlap(r1.t, r1.b, r2.t, r2.b) > 3 * Smaller(r1.b - r1.t, r2.b - r2.t)
    \/ 10 * Overlap(r1.l, r1.r, r2.l, r2.r) > 3 * Smaller(r1.r - r1.l, r2.r - r2.l)

DecisionTable(r1, r2, mdf) ==
    IF RelAbove(r1, r2, mdf) THEN FALSE
    ELSE IF RelBelow(r1, r2, 15) /\ Aligned(r1, r2) THEN TRUE
    ELSE IF RelBelow(r1, r2, 8) THEN TRUE
    ELSE FALSE

ZeroArea(r) == (r.r - r.l) * (r.b - r.t) = 0

ZeroSize(r) == r.l = r.r /\ r.t = r.b

(* The items are sorted and their props derived: from here on only their used *)
(* flags change                                                                *)
Sorted == pc = "for_i" /\ i = 1

(* The table, the symmetry and the boundary case, for every pair of items *)
TableHolds ==
    \A a, b \in 1..Len(items_with_props) :
        LET r1 == RectOf(items_with_props[a].bbox)
            r2 == RectOf(items_with_props[b].bbox)
            merged == should_merge_bubbles(items_with_props[a].props,
                                           items_with_props[b].props, max_distance_factor)
        IN  /\ merged = DecisionTable(r1, r2, max_distance_factor)
            /\ merged = should_merge_bubbles(items_with_props[b].props,
                                             items_with_props[a].props, max_distance_factor)
            /\ (max_distance_factor = 20 /\ RelEquals(r1, r2, 20)) => ~merged

(* No two distinct items of zero area (zero width or zero height) merge *)
ZeroAreaNeverMerge ==
    \A a, b \in 1..Len(items_with_props) :
        (/\ a # b
         /\ ZeroArea(RectOf(items_with_props[a].bbox))
         /\ ZeroArea(RectOf(items_with_props[b].bbox)))
            => ~should_merge_bubbles(items_with_props[a].props,
                                     items_with_props[b].props, max_distance_factor)

(* No two distinct items of zero width and zero height merge *)
ZeroSizeNeverMerge ==
    \A a, b \in 1..Len(items_with_props) :
        (/\ a # b
         /\ ZeroSize(RectOf(items_with_props[a].bbox))
         /\ ZeroSize(RectOf(items_with_props[b].bbox)))
            => ~should_merge_bubbles(items_with_props[a].props,
                                     items_with_props[b].props, max_distance_factor)

(* C9 as stated: should_merge_bubbles equals the decision table, is symmetric, *)
(* does not merge at relative distance exactly 2.0 = max_distance_factor, and  *)
(* never merges two zero-area boxes.                                           *)
C9_ZeroAreaNeverMerge == Sorted => (TableHolds /\ ZeroAreaNeverMerge)

(* C9 as amended: the same, with "zero-area" narrowed to boxes of zero width *)
(* and zero height, the only pairs whose avg_size is not > 0.                *)
C9_DecisionTable == Sorted => (TableHolds /\ ZeroSizeNeverMerge)

(* The items hold two coincident boxes of zero width and height and a third *)
(* box at relative distance exactly 2.0 = max_distance_factor from them     *)
C9_Witness ==
    /\ Sorted
    /\ max_distance_factor = 20
    /\ \E a, b, c \in 1..Len(items_with_props) :
           /\ a # b
           /\ ZeroSize(RectOf(items_with_props[a].bbox))
           /\ RectOf(items_with_props[a].bbox) = RectOf(items_with_props[b].bbox)
           /\ RelEquals(RectOf(items_with_props[a].bbox), RectOf(items_with_props[c].bbox), 20)

(* C10. (a) No unused item merges with a member of a closed cluster, and every *)
(* member but the seed merged with a member added before it.  (b) On return    *)
(* the paragraphs are the connected components of the merge relation on the    *)
(* input: no merge between paragraphs, a chain of merges inside each.          *)
C10_Components ==
    /\ \A p \in 1..Len(cluster_log) :
           /\ \A u \in 1..Len(items_with_props) : \A m \in Range(cluster_log[p].sorted) :
                  ~items_with_props[u].used =>
                      ~should_merge_bubbles(items_with_props[m].props,
                                            items_with_props[u].props, max_distance_factor)
           /\ \A k \in 2..Len(cluster_log[p].added) : \E e \in 1..(k - 1) :
                  should_merge_bubbles(items_with_props[cluster_log[p].added[e]].props,
                                       items_with_props[cluster_log[p].added[k]].props,
                                       max_distance_factor)
    /\ Done =>
           /\ {MemberSet(p) : p \in 1..Len(cluster_log)} = Components
           /\ \A p, q \in 1..Len(cluster_log) : \A x \in MemberSet(p), y \in MemberSet(q) :
                  p # q => ~Merge(x, y)

(* A returned paragraph holds a member that does not merge with its seed *)
C10_Witness ==
    /\ Done
    /\ \E p \in 1..Len(cluster_log) : \E x \in MemberSet(p) :
           /\ x # AddedSeq(p)[1]
           /\ ~Merge(AddedSeq(p)[1], x)

(* C7 as stated: over any sequence of calls of /init, /read_text and /close the *)
(* reader is constructed at most once.                                          *)
C7_ConstructedOnce == constructed <= 1

(* C7 as amended: the reader is constructed only while none is cached, so the  *)
(* constructions are the releases by /close plus the one cached, if any; the   *)
(* cached reader is the last one constructed, and a suspended /read_text keeps *)
(* the reader it took.                                                         *)
C7_OncePerCachedReader ==
    /\ constructed = released + (IF reader # 0 THEN 1 ELSE 0)
    /\ reader \in {0, constructed}
    /\ \A r \in requests : r.reader \in 1..constructed

(* /close dropped a reader and a later call constructed the second one, while *)
(* a /read_text that took the first one is still suspended                    *)
C7_Witness ==
    /\ constructed = 2
    /\ released = 1
    /\ reader = 2
    /\ \E r \in requests : r.reader = 1

====
